---- MODULE Spec2Model ----
(***************************************************************************)
(* Neon-city flythrough: the two program variants src/main.js and          *)
(* src/unnamed/part_000.  Startup (init), the procedural city, the rain    *)
(* particle pool and the per-frame callback (animate) as a state machine.  *)
(*                                                                         *)
(* Numbers.  Every length is an integer count of grid steps of 1/8 world   *)
(* unit (U(1) = 8 steps).  All program constants (0.25, 0.5, 1.5, ...) lie *)
(* on that grid, and so do all sampled values used below; on such values   *)
(* the program's Float32/double arithmetic is exact, so integer arithmetic *)
(* computes what the program computes.                                     *)
(*                                                                         *)
(* Randomness.  A call of Math.random() is an input r = <<num, den>> with  *)
(* 0 <= num < den, i.e. a rational in [0, 1).  Each program expression is  *)
(* evaluated on r as the source writes it.  A result of Math.sin is an     *)
(* input s = <<num, den>> with -den <= num <= den.                         *)
(***************************************************************************)
EXTENDS Integers, Sequences, FiniteSets, TLC

\* ------------------------------------------------------------------ bounds
\* Number of rain particles in the model's pool (rainCount in the source).
RainCount == 2
\* Number of frames (animate calls) explored by the short-run specification.
MaxFrames == 3
\* Candidate slots of createCyberpunkCity in the model (buildingCount).
MainSlots == 2
\* Buildings per row of createBuildingRow in the model (count).
RowSlots == 1

\* --------------------------------------------------------------- arithmetic
U(n) == 8 * n

Abs(a) == IF a < 0 THEN -a ELSE a

\* r * a for a rational r = <<num, den>> and a grid value a.
Times(r, a) == (r[1] * a) \div r[2]

\* Math.floor(a / b) for grid values a >= 0, b > 0.
Floor(a, b) == a \div b

\* r > c for rationals (Math.random() > 0.6).
Greater(r, c) == r[1] * c[2] > c[1] * r[2]

Variants == {"main", "part_000"}

VARIABLES
    variant,         \* which program file runs
    pc,              \* "start" | "environment" | "running" | "failed"
    backend,         \* renderer backend in use: "none" | "WebGL" | "WebGPU"
    capabilityQueries, \* number of backend-availability queries made so far
    slot,            \* <<row, i>>: loop position of the city generator
    buildings,       \* sequence of the building groups added to the scene
    sampledX,        \* history: the x sampled for each candidate slot so far
    rainPositions,   \* Float32Array(rainCount * 6), index 0 .. 6N-1
    rainVelocities,  \* Float32Array(rainCount), index 0 .. N-1
    camera,          \* camera.position
    viewport,        \* camera.aspect, renderer size, composer size
    windowSize,      \* <<window.innerWidth, window.innerHeight>>
    frame,           \* history: number of animate calls so far
    streakLength,    \* history: streak length chosen at creation / last respawn
    respawned,       \* history: particles respawned by the last animate call
    visits,          \* history: loop-body executions per particle, last call
    age,             \* history: animate calls since creation / last respawn
    steps,           \* history: order of the parts of the last animate call
    zeroFrame        \* history: frame at which camera z first was 0 (-1: never)

vars == <<variant, pc, backend, capabilityQueries, slot, buildings, sampledX,
          rainPositions, rainVelocities, camera, viewport, windowSize, frame,
          streakLength, respawned, visits, age, steps, zeroFrame>>

cityVars == <<slot, buildings, sampledX>>
rainVars == <<rainPositions, rainVelocities, streakLength, respawned, visits, age>>
frameVars == <<frame, steps, zeroFrame>>

\* ------------------------------------------------------- program constants
\* camera.position.set(0, 8, 30) / (0, 8, 50)
cameraStart(v) ==
    IF v = "main" THEN [x |-> 0, y |-> U(8), z |-> U(30)]
    ELSE [x |-> 0, y |-> U(8), z |-> U(50)]

\* camera.position.z -= 0.5 / 0.25
cameraStep(v) == IF v = "main" THEN U(1) \div 2 ELSE U(1) \div 4

\* if (camera.position.z < -400) / (< -600)
wrapThreshold(v) == IF v = "main" THEN -U(400) ELSE -U(600)

\* camera.position.z = 400 / 600
wrapValue(v) == IF v = "main" THEN U(400) ELSE U(600)

\* sway amplitudes and base height: sin(..) * 8, 8 + sin(..) * 3
swayX(v, s) == Times(s, U(8))
swayY(v, s) == U(8) + Times(s, U(3))

\* respawn height: newY = 300 / pos[i*6+1] = 200
maxHeight(v) == IF v = "main" THEN U(300) ELSE U(200)

\* respawn spread: (Math.random() - 0.5) * 300 / * 250
respawnSpread(v) == IF v = "main" THEN U(300) ELSE U(250)
halfWidth(v) == respawnSpread(v) \div 2

\* createRain spread: (Math.random() - 0.5) * 400 / * 300
createSpread(v) == IF v = "main" THEN U(400) ELSE U(300)

\* createRain height: Math.random() * 300 / * 200
createHeight(v) == IF v = "main" THEN U(300) ELSE U(200)

\* streak length: 1 + Math.random() * 2 / 1 + Math.random()
streakOf(v, r) == IF v = "main" THEN U(1) + Times(r, U(2)) ELSE U(1) + Times(r, U(1))

\* Mutant of velocityOf: the minimum fall speed is 1.
velocityOfSlow(v, r) ==
    IF v = "main" THEN U(1) + Times(r, U(3))
    ELSE U(1) + Times(r, U(3) \div 2)

\* fall speed: 2 + Math.random() * 3 / 1.5 + Math.random() * 1.5
velocityOf(v, r) ==
    IF v = "main" THEN U(2) + Times(r, U(3))
    ELSE (U(3) \div 2) + Times(r, U(3) \div 2)

\* rainCount (50000 / 10000 in the source; RainCount particles in the model)
rainCount(v) == RainCount

\* buildingCount = 400 (MainSlots in the model); count = 40 (RowSlots)
buildingCount(v) == IF v = "main" THEN MainSlots ELSE RowSlots

\* if (Math.abs(x) < 15) continue;
roadHalfWidth == U(15)

\* createCityscape: the six createBuildingRow(xMin, xMax) calls, in order
cityRows ==
    << <<-U(30), -U(60)>>, <<-U(60), -U(100)>>, <<-U(100), -U(150)>>,
       <<U(30), U(60)>>, <<U(60), U(100)>>, <<U(100), U(150)>> >>

\* ------------------------------------------------------------------ inputs
\* The values Math.random() and Math.sin() return in a run are inputs.  A
\* draw set D names, per call site, the finite set of values explored.
\*   D.cityX, D.cityZ, D.width, D.depth, D.height : Math.random() of the city
\*   D.rowX, D.rowZ, D.rowWidth, D.rowDepth, D.rowHeight : Math.random() of
\*              createBuildingRow
\*   D.lit    : sequences of Math.random() values, used cyclically by the
\*              window loop of createBuilding (one value per grid cell)
\*   D.rainX, D.rainY, D.rainZ, D.len, D.vel : Math.random() of createRain
\*   D.newLen, D.dx, D.dz : Math.random() of a respawn in animate
\*   D.sin, D.sinY : values of Math.sin(time * f) in animate (x and y sway)
\*   D.window : window sizes <<innerWidth, innerHeight>> when init runs
\*   D.resize : window sizes a resize event brings
\*   D.throws : whether new THREE.WebGLRenderer(..) may throw

\* Draws of the whole-program specification: few values per site.
ProgramDraws ==
    [ cityX |-> {<<0, 1>>}, cityZ |-> {<<1, 2>>},
      width |-> {<<0, 1>>}, depth |-> {<<0, 1>>}, height |-> {<<1, 30>>},
      lit |-> {<< <<0, 1>>, <<3, 4>> >>},
      rowX |-> {<<0, 1>>}, rowZ |-> {<<1, 2>>}, rowWidth |-> {<<0, 1>>},
      rowDepth |-> {<<0, 1>>}, rowHeight |-> {<<0, 1>>},
      rainX |-> {<<1, 4>>}, rainZ |-> {<<3, 4>>},
      rainY |-> {<<1, 600>>, <<1, 150>>, <<3, 4>>},
      len |-> {<<3, 4>>},
      vel |-> {<<0, 1>>, <<1, 2>>},
      newLen |-> {<<1, 4>>},
      dx |-> {<<0, 1>>, <<299, 300>>}, dz |-> {<<0, 1>>},
      sin |-> {<<-1, 1>>, <<1, 1>>}, sinY |-> {<<0, 1>>},
      window |-> {<<800, 600>>, <<1024, 768>>},
      resize |-> {<<800, 600>>, <<1280, 720>>},
      throws |-> {TRUE, FALSE} ]

\* Draws of the city specification: the road boundary (|x| = 15 - 1/2, 15),
\* the extremes of every range, window grids of every size class.
CityDraws ==
    [ ProgramDraws EXCEPT
      !.cityX = {<<0, 1>>, <<47, 100>>, <<471, 1000>>, <<1, 2>>,
                 <<529, 1000>>, <<53, 100>>, <<999, 1000>>},
      !.width = {<<0, 1>>, <<31, 32>>},
      !.height = {<<1, 30>>, <<119, 120>>},
      !.lit = {<< <<0, 1>> >>, << <<3, 4>>, <<3, 5>>, <<0, 1>> >>},
      !.rowX = {<<0, 1>>, <<119, 120>>} ]

\* Draws of the long-run specification: one value per site, so that a run
\* is long (a full camera loop) instead of wide.
LongDraws ==
    [ ProgramDraws EXCEPT
      !.rainY = {<<3, 4>>}, !.len = {<<1, 2>>}, !.vel = {<<0, 1>>, <<3, 4>>},
      !.newLen = {<<1, 2>>}, !.dx = {<<0, 1>>}, !.dz = {<<299, 300>>},
      !.sin = {<<1, 2>>}, !.window = {<<800, 600>>},
      !.resize = {<<800, 600>>}, !.throws = {FALSE} ]

\* ------------------------------------------------------------------- state
NoViewport == [aspect |-> <<0, 1>>, renderer |-> <<0, 0>>, composer |-> <<0, 0>>]

EmptyBuffer == [k \in {} |-> 0]

Init ==
    /\ variant \in Variants
    /\ pc = "start"
    /\ backend = "none"
    /\ capabilityQueries = 0
    /\ slot = <<1, 0>>
    /\ buildings = <<>>
    /\ sampledX = <<>>
    /\ rainPositions = EmptyBuffer
    /\ rainVelocities = EmptyBuffer
    /\ camera = [x |-> 0, y |-> 0, z |-> 0]
    /\ viewport = NoViewport
    /\ windowSize = <<0, 0>>
    /\ frame = 0
    /\ streakLength = EmptyBuffer
    /\ respawned = EmptyBuffer
    /\ visits = EmptyBuffer
    /\ age = EmptyBuffer
    /\ steps = <<>>
    /\ zeroFrame = -1

\* ----------------------------------------------------------------- startup
RECURSIVE Gcd(_, _)
Gcd(a, b) == IF b = 0 THEN a ELSE Gcd(b, a % b)

\* window.innerWidth / window.innerHeight as a reduced fraction
Aspect(w) == <<w[1] \div Gcd(w[1], w[2]), w[2] \div Gcd(w[1], w[2])>>

\* Mutant of RendererBackend: the advanced backend is taken.
RendererBackendAdvanced(v) == "WebGPU"

\* The renderer construction of init: new THREE.WebGLRenderer(..), always the
\* WebGL backend, with no availability query and no try/catch around it.
RendererBackend(v) == "WebGL"

\* init(), steps 1-6: clock, scene, camera, renderer, composer, lights.  The
\* renderer constructor is the only call that can throw; init has no handler,
\* so a throw ends init (its promise rejects) before the environment is built
\* and before setAnimationLoop.
initSetup(D) ==
    /\ pc = "start"
    /\ \E throws \in D.throws, w \in D.window :
        IF throws
        THEN /\ pc' = "failed"
             /\ camera' = cameraStart(variant)
             /\ UNCHANGED <<backend, viewport, windowSize>>
        ELSE /\ pc' = "environment"
             /\ camera' = cameraStart(variant)
             /\ backend' = RendererBackend(variant)
             /\ windowSize' = w
             /\ viewport' = [aspect |-> Aspect(w), renderer |-> w, composer |-> w]
    /\ UNCHANGED <<variant, capabilityQueries, cityVars, rainVars, frameVars>>

\* -------------------------------------------------------------------- city
\* main.js createBuilding, the window grid: rows x cols cells in loop order
\* (row-major); cell k draws lit[k mod Len(lit)]; a draw > 0.6 leaves the
\* window off; a lit window is a 1 x 2 quad centred at (wx, wy) on the front
\* face and a clone of it on the back face.
\* Mutant of windowRows: Math.ceil in place of Math.floor.
windowRowsCeil(height) == Floor(height + U(4) - 1, U(4))

windowRows(height) == Floor(height, U(4))
windowCols(width) == Floor(width, U(2))
windowX(width, col) == -(width \div 2) + col * U(2) + U(1)
windowY(row) == row * U(4) + U(3)

createWindows(width, height, lit) ==
    LET rows == windowRows(height)
        cols == windowCols(width)
        draw(row, col) == lit[((row * cols + col) % Len(lit)) + 1]
    IN  { [x |-> windowX(width, col), y |-> windowY(row), face |-> f] :
            <<row, col, f>> \in
              { c \in (0 .. rows - 1) \X (0 .. cols - 1) \X {"front", "back"} :
                  ~Greater(draw(c[1], c[2]), <<6, 10>>) } }

\* createBuilding(x, z, width, depth, height) of main.js, and
\* createBuilding(x, z, width, height, depth) of part_000 (no windows).
createBuilding(v, x, z, width, depth, height, lit) ==
    [ x |-> x, z |-> z, width |-> width, depth |-> depth, height |-> height,
      windows |-> IF v = "main" THEN createWindows(width, height, lit) ELSE {} ]

\* One iteration of the loop of createCyberpunkCity (main.js).
cityX(r) == Times(r, U(500)) - U(250)
cityZ(r) == Times(r, U(1000)) - U(500)

\* Mutant of onRoad: the test without Math.abs.
onRoadNoAbs(x) == x < roadHalfWidth

onRoad(x) == Abs(x) < roadHalfWidth

createCyberpunkCitySlot(D) ==
    /\ pc = "environment"
    /\ variant = "main"
    /\ slot[2] < buildingCount(variant)
    /\ \E rx \in D.cityX, rz \in D.cityZ, rw \in D.width, rd \in D.depth,
          rh \in D.height, lit \in D.lit :
        LET x == cityX(rx)
            z == cityZ(rz)
            width == Times(rw, U(8)) + U(4)
            depth == Times(rd, U(8)) + U(4)
            height == Times(rh, U(60)) + U(10)
        IN  /\ buildings' =
                  IF onRoad(x) THEN buildings
                  ELSE Append(buildings,
                          createBuilding(variant, x, z, width, depth, height, lit))
            /\ sampledX' = Append(sampledX, x)
    /\ slot' = <<slot[1], slot[2] + 1>>
    /\ UNCHANGED <<variant, pc, backend, capabilityQueries, rainVars, camera,
                   viewport, windowSize, frameVars>>

\* One iteration of the loop of createBuildingRow(xMin, xMax) (part_000),
\* for the rows of createCityscape in order.
rowX(xMin, xMax, r) == xMin + Times(r, xMax - xMin)

createBuildingRowSlot(D) ==
    /\ pc = "environment"
    /\ variant = "part_000"
    /\ slot[1] <= Len(cityRows)
    /\ \E rx \in D.rowX, rz \in D.rowZ, rw \in D.rowWidth, rd \in D.rowDepth,
          rh \in D.rowHeight :
        LET xMin == cityRows[slot[1]][1]
            xMax == cityRows[slot[1]][2]
            x == rowX(xMin, xMax, rx)
            z == Times(rz, U(1500)) - U(750)
            height == Times(rh, U(80)) + U(20)
            width == Times(rw, U(15)) + U(8)
            depth == Times(rd, U(15)) + U(8)
        IN  /\ buildings' =
                  Append(buildings,
                     createBuilding(variant, x, z, width, depth, height, <<>>))
            /\ sampledX' = Append(sampledX, x)
    /\ slot' = IF slot[2] + 1 < buildingCount(variant)
               THEN <<slot[1], slot[2] + 1>>
               ELSE <<slot[1] + 1, 0>>
    /\ UNCHANGED <<variant, pc, backend, capabilityQueries, rainVars, camera,
                   viewport, windowSize, frameVars>>

\* The city loops have run to their end.
cityDone ==
    IF variant = "main" THEN slot[2] >= buildingCount(variant)
    ELSE slot[1] > Len(cityRows)

NextCity ==
    \/ initSetup(CityDraws)
    \/ createCyberpunkCitySlot(CityDraws)
    \/ createBuildingRowSlot(CityDraws)

\* Startup up to the end of the city generator, with the city draws.
SpecCity == Init /\ [][NextCity]_vars

\* -------------------------------------------------------------------- rain
\* A write to / read of a typed array: the length is fixed at allocation and
\* a write outside it is dropped.
Store(buf, idx, val) == IF idx \in DOMAIN buf THEN [buf EXCEPT ![idx] = val] ELSE buf

\* new Float32Array(n): n zeros.
Float32Array(n) == [k \in 0 .. n - 1 |-> 0]

\* Mutant of positionsLength: one vertex per particle.
positionsLengthOneVertex(n) == n * 3

\* new Float32Array(rainCount * 6): two vertices of three coordinates each.
positionsLength(n) == n * 6

\* for (let i = 0; i < rainCount; i++): the indices the loop of createRain
\* runs over.
loopIndices(n) == 0 .. n - 1

\* Mutant of rainLoopIndices: the loop starts at 1.
rainLoopIndicesFromOne(n) == 1 .. n - 1

\* for (let i = 0; i < rainCount; i++), rainCount = rainVelocities.length:
\* the indices the rain loop of animate runs over.
rainLoopIndices(n) == 0 .. n - 1

\* Body of the loop of createRain for particle i, drawing d.
createParticle(v, st, i, d) ==
    LET x == Times(d.x, createSpread(v)) - createSpread(v) \div 2
        y == Times(d.y, createHeight(v))
        z == Times(d.z, createSpread(v)) - createSpread(v) \div 2
        len == streakOf(v, d.len)
        p0 == Store(st.pos, i * 6, x)
        p1 == Store(p0, i * 6 + 1, y)
        p2 == Store(p1, i * 6 + 2, z)
        p3 == Store(p2, i * 6 + 3, x)
        p4 == Store(p3, i * 6 + 4, y - len)
        p5 == Store(p4, i * 6 + 5, z)
    IN  [ pos |-> p5,
          vel |-> Store(st.vel, i, velocityOf(v, d.vel)),
          len |-> Store(st.len, i, len) ]

RECURSIVE createRainLoop(_, _, _, _, _)
createRainLoop(v, st, i, n, draws) ==
    IF i >= n THEN st
    ELSE createRainLoop(v, createParticle(v, st, i, draws[i]), i + 1, n, draws)

ParticleDraws(D) == [x : D.rainX, y : D.rainY, z : D.rainZ, len : D.len, vel : D.vel]

\* createRain(), followed by the rest of init: the resize listener is
\* registered and setAnimationLoop(animate) starts the frame loop.
createRain(D) ==
    /\ pc = "environment"
    /\ cityDone
    /\ \E draws \in [loopIndices(rainCount(variant)) -> ParticleDraws(D)] :
        LET n == rainCount(variant)
            st == createRainLoop(variant,
                     [ pos |-> Float32Array(positionsLength(n)),
                       vel |-> Float32Array(n), len |-> Float32Array(n) ],
                     0, n, draws)
        IN  /\ rainPositions' = st.pos
            /\ rainVelocities' = st.vel
            /\ streakLength' = st.len
            /\ respawned' = [i \in DOMAIN st.vel |-> FALSE]
            /\ visits' = [i \in DOMAIN st.vel |-> 0]
            /\ age' = [i \in DOMAIN st.vel |-> 0]
    /\ pc' = "running"
    /\ UNCHANGED <<variant, backend, capabilityQueries, cityVars, camera,
                   viewport, windowSize, frameVars>>

\* ----------------------------------------------------------------- animate
\* Mutant of cameraPathDriver: the wrap test is <= in place of <.
cameraPathDriverWrapEarly(v, cam, sx, sy) ==
    LET z1 == cam.z - cameraStep(v)
        z2 == IF z1 <= wrapThreshold(v) THEN wrapValue(v) ELSE z1
    IN  [x |-> swayX(v, sx), y |-> swayY(v, sy), z |-> z2]

\* Mutant of cameraPathDriver: the wrap is missing.
cameraPathDriverNoWrap(v, cam, sx, sy) ==
    [x |-> swayX(v, sx), y |-> swayY(v, sy), z |-> cam.z - cameraStep(v)]

\* Camera part of animate: z steps down and wraps, x and y follow the sway.
cameraPathDriver(v, cam, sx, sy) ==
    LET z1 == cam.z - cameraStep(v)
        z2 == IF z1 < wrapThreshold(v) THEN wrapValue(v) ELSE z1
    IN  [x |-> swayX(v, sx), y |-> swayY(v, sy), z |-> z2]

\* Mutant of rainCamera: the rain loop runs before the camera lines.
rainCameraBefore(before, after) == before

\* The camera position the rain loop reads: the camera lines of animate come
\* before the rain loop, so the loop sees the position of this frame.
rainCamera(before, after) == after

\* Mutant of fall: only the start vertex moves.
fallStartOnly(pos, i, vel) == Store(pos, i * 6 + 1, pos[i * 6 + 1] - vel)

\* Move both vertices of particle i down by its velocity.
fall(pos, i, vel) ==
    LET p1 == Store(pos, i * 6 + 1, pos[i * 6 + 1] - vel)
    IN  Store(p1, i * 6 + 4, p1[i * 6 + 4] - vel)

\* The streak length a respawn gives: 1 + Math.random() * 2 in main.js; in
\* part_000 the end point is set to 199 below a start point of 200.
respawnStreak(v, r) == IF v = "main" THEN streakOf(v, r) ELSE U(200) - U(199)

\* Mutant of respawn: the end vertex keeps its old x and z.
respawnStartOnly(v, pos, i, cam, d) ==
    LET newY == maxHeight(v)
        p1 == Store(pos, i * 6 + 1, newY)
        p4 == Store(p1, i * 6 + 4, newY - respawnStreak(v, d.len))
        p0 == Store(p4, i * 6,
                    cam.x + (Times(d.dx, respawnSpread(v)) - respawnSpread(v) \div 2))
    IN  Store(p0, i * 6 + 2,
              cam.z + (Times(d.dz, respawnSpread(v)) - respawnSpread(v) \div 2))

\* Reset of particle i (the body of "if (positions[i * 6 + 1] < 0)").
respawn(v, pos, i, cam, d) ==
    LET newY == maxHeight(v)
        p1 == Store(pos, i * 6 + 1, newY)
        p4 == Store(p1, i * 6 + 4, newY - respawnStreak(v, d.len))
        p0 == Store(p4, i * 6,
                    cam.x + (Times(d.dx, respawnSpread(v)) - respawnSpread(v) \div 2))
        p2 == Store(p0, i * 6 + 2,
                    cam.z + (Times(d.dz, respawnSpread(v)) - respawnSpread(v) \div 2))
        p3 == Store(p2, i * 6 + 3, p2[i * 6])
    IN  Store(p3, i * 6 + 5, p3[i * 6 + 2])

\* Mutant of rainStep: the ground test reads start.y before the particle is
\* moved.
rainStepTestFirst(v, st, i, cam, d) ==
    LET moved == fall(st.pos, i, rainVelocities[i])
        reset == st.pos[i * 6 + 1] < 0
    IN  [ pos |-> IF reset THEN respawn(v, moved, i, cam, d) ELSE moved,
          len |-> IF reset THEN Store(st.len, i, respawnStreak(v, d.len)) ELSE st.len,
          respawned |-> Store(st.respawned, i, reset),
          visits |-> Store(st.visits, i, st.visits[i] + 1),
          age |-> Store(st.age, i, IF reset THEN 0 ELSE st.age[i] + 1) ]

\* Body of the rain loop of animate for particle i.
rainStep(v, st, i, cam, d) ==
    LET moved == fall(st.pos, i, rainVelocities[i])
        reset == moved[i * 6 + 1] < 0
    IN  [ pos |-> IF reset THEN respawn(v, moved, i, cam, d) ELSE moved,
          len |-> IF reset THEN Store(st.len, i, respawnStreak(v, d.len)) ELSE st.len,
          respawned |-> Store(st.respawned, i, reset),
          visits |-> Store(st.visits, i, st.visits[i] + 1),
          age |-> Store(st.age, i, IF reset THEN 0 ELSE st.age[i] + 1) ]

RECURSIVE rainLoop(_, _, _, _, _)
rainLoop(v, st, todo, cam, draws) ==
    IF todo = {} THEN st
    ELSE LET i == CHOOSE k \in todo : \A m \in todo : k <= m
         IN  rainLoop(v, rainStep(v, st, i, cam, draws[i]), todo \ {i}, cam, draws)

RespawnDraws(D) == [len : D.newLen, dx : D.dx, dz : D.dz]

\* The parts of one animate call, in source order.
frameSteps(v) ==
    IF v = "main" THEN <<"camera", "signs", "rain", "controls", "render">>
    ELSE <<"camera", "rain", "render">>

\* One frame callback.  limit bounds the number of frames explored.
animate(D, limit) ==
    /\ pc = "running"
    /\ frame < limit
    /\ \E sx \in D.sin, sy \in D.sinY,
          draws \in [rainLoopIndices(Cardinality(DOMAIN rainVelocities)) -> RespawnDraws(D)] :
        LET after == cameraPathDriver(variant, camera, sx, sy)
            st == rainLoop(variant,
                     [ pos |-> rainPositions, len |-> streakLength,
                       respawned |-> [i \in DOMAIN rainVelocities |-> FALSE],
                       visits |-> [i \in DOMAIN rainVelocities |-> 0],
                       age |-> age ],
                     rainLoopIndices(Cardinality(DOMAIN rainVelocities)),
                     rainCamera(camera, after), draws)
        IN  /\ camera' = after
            /\ rainPositions' = st.pos
            /\ streakLength' = st.len
            /\ respawned' = st.respawned
            /\ visits' = st.visits
            /\ age' = st.age
            /\ zeroFrame' = IF zeroFrame = -1 /\ after.z = 0 THEN frame + 1 ELSE zeroFrame
    /\ frame' = frame + 1
    /\ steps' = frameSteps(variant)
    /\ UNCHANGED <<variant, pc, backend, capabilityQueries, cityVars,
                   rainVelocities, viewport, windowSize>>

\* Mutant of onWindowResize: the composer keeps its old size.
onWindowResizeNoComposer(D) ==
    /\ pc = "running"
    /\ \E w \in D.resize :
        /\ windowSize' = w
        /\ viewport' = [viewport EXCEPT !.aspect = Aspect(w), !.renderer = w]
    /\ UNCHANGED <<variant, pc, backend, capabilityQueries, cityVars, rainVars,
                   camera, frameVars>>

\* The resize listener: the window has a new inner size w, and the handler
\* stores its aspect in the camera and its size in the renderer and composer.
onWindowResize(D) ==
    /\ pc = "running"
    /\ \E w \in D.resize :
        /\ windowSize' = w
        /\ viewport' = [aspect |-> Aspect(w), renderer |-> w, composer |-> w]
    /\ UNCHANGED <<variant, pc, backend, capabilityQueries, cityVars, rainVars,
                   camera, frameVars>>

\* ---------------------------------------------------------- specifications
Next ==
    \/ initSetup(ProgramDraws)
    \/ createCyberpunkCitySlot(ProgramDraws)
    \/ createBuildingRowSlot(ProgramDraws)
    \/ createRain(ProgramDraws)
    \/ animate(ProgramDraws, MaxFrames)
    \/ onWindowResize(ProgramDraws)

\* The whole program, for MaxFrames frames.
Spec == Init /\ [][Next]_vars

\* Frames needed to bring the camera from its start to z = 0 and then through
\* one full loop (2T/s frames), plus two.
longFrames(v) ==
    cameraStart(v).z \div cameraStep(v) + (2 * wrapValue(v)) \div cameraStep(v) + 2

NextLong ==
    \/ initSetup(LongDraws)
    \/ createCyberpunkCitySlot(LongDraws)
    \/ createBuildingRowSlot(LongDraws)
    \/ createRain(LongDraws)
    \/ animate(LongDraws, longFrames(variant))
    \/ onWindowResize(LongDraws)

\* The whole program over a full camera loop, one draw per call site.
SpecLong == Init /\ [][NextLong]_vars

\* ------------------------------------------------------------------ claims
Particles == DOMAIN rainVelocities
startX(pos, i) == pos[i * 6]
startY(pos, i) == pos[i * 6 + 1]
startZ(pos, i) == pos[i * 6 + 2]
endX(pos, i) == pos[i * 6 + 3]
endY(pos, i) == pos[i * 6 + 4]
endZ(pos, i) == pos[i * 6 + 5]

\* The step is one animate call.
IsFrame == frame' = frame + 1

\* C1: for every rain particle, after createRain and after every animate call
\* (moved or respawned), end.y = start.y - streak length, the streak length
\* being the one chosen at creation or at the most recent respawn.
C1_StreakInvariant ==
    pc = "running" =>
        \A i \in Particles :
            endY(rainPositions, i) = startY(rainPositions, i) - streakLength[i]

\* C1 witness: after a frame in which one particle was respawned and another
\* merely moved.
C1_Witness ==
    /\ pc = "running"
    /\ frame >= 2
    /\ \E i, j \in Particles : respawned[i] /\ ~respawned[j]

\* C2: in one animate call, a particle whose start.y is below 0 after the
\* decrement by its speed ends the call with start.y = max height (300 / 200),
\* start.x and start.z within the half-width (150 / 125) of the camera's x
\* and z, end.x = start.x and end.z = start.z.
C2_Respawn ==
    [][ \A i \in Particles :
          (IsFrame /\ startY(rainPositions, i) - rainVelocities[i] < 0) =>
            /\ startY(rainPositions', i) = IF variant = "main" THEN U(300) ELSE U(200)
            /\ Abs(startX(rainPositions', i) - camera'.x)
                 <= (IF variant = "main" THEN U(150) ELSE U(125))
            /\ Abs(startZ(rainPositions', i) - camera'.z)
                 <= (IF variant = "main" THEN U(150) ELSE U(125))
            /\ endX(rainPositions', i) = startX(rainPositions', i)
            /\ endZ(rainPositions', i) = startZ(rainPositions', i) ]_vars

\* C2 witness: the first frame has respawned a particle of speed 2.0 (its
\* start.y was 0.5 in main.js) at the far edge of the respawn square.
C2_Witness ==
    /\ pc = "running"
    /\ frame = 1
    /\ \E i \in Particles :
        /\ respawned[i]
        /\ rainVelocities[i] = U(2)
        /\ startY(rainPositions, i) = maxHeight(variant)
        /\ startX(rainPositions, i) = camera.x - halfWidth(variant)

\* C3: the pool never changes size: 6N position values and N velocities
\* after createRain and after any number of animate calls.
C3_PoolSize ==
    pc = "running" =>
        /\ DOMAIN rainPositions = 0 .. 6 * RainCount - 1
        /\ DOMAIN rainVelocities = 0 .. RainCount - 1
        /\ Cardinality(DOMAIN rainPositions) = 6 * RainCount
        /\ Cardinality(DOMAIN rainVelocities) = RainCount

\* C3 witness: two frames have run and the last one respawned a particle.
C3_Witness ==
    /\ pc = "running"
    /\ frame >= 2
    /\ \E i \in Particles : respawned[i]
    /\ Cardinality(DOMAIN rainPositions) = 6 * RainCount

\* C4: each animate call runs the loop body exactly once for every particle,
\* decrements start.y and end.y once by the particle's own speed (a particle
\* is reset exactly when that decrement takes start.y below 0), whatever the
\* clock returned, and leaves every speed unchanged.
C4_OneDecrementEach ==
    [][ IsFrame =>
          /\ rainVelocities' = rainVelocities
          /\ DOMAIN visits' = Particles
          /\ \A i \in Particles :
              /\ visits'[i] = 1
              /\ respawned'[i] <=> startY(rainPositions, i) - rainVelocities[i] < 0
              /\ ~respawned'[i] =>
                  /\ startY(rainPositions', i)
                       = startY(rainPositions, i) - rainVelocities[i]
                  /\ endY(rainPositions', i)
                       = endY(rainPositions, i) - rainVelocities[i] ]_vars

\* C4 witness: a frame has run, every particle was visited once, one was only
\* moved and one was reset.
C4_Witness ==
    /\ pc = "running"
    /\ frame >= 1
    /\ \A i \in Particles : visits[i] = 1
    /\ \E i, j \in Particles :
        /\ ~respawned[i] /\ respawned[j]
        /\ rainVelocities[i] # rainVelocities[j]

\* x coordinates of a sequence of buildings.
RECURSIVE xsOf(_)
xsOf(bs) == IF bs = <<>> THEN <<>> ELSE <<Head(bs).x>> \o xsOf(Tail(bs))

OffRoad(x) == Abs(x) >= U(15)

\* C5: a building is placed for a slot iff the x sampled for it has
\* |x| >= 15 (main.js; a rejected slot is dropped, not resampled), so every
\* building has |x| >= 15 (part_000: 30 <= |x| <= 150) and there are never
\* more buildings than slots.
C5_Exclusion ==
    /\ \A k \in 1 .. Len(buildings) :
        IF variant = "main" THEN Abs(buildings[k].x) >= U(15)
        ELSE U(30) <= Abs(buildings[k].x) /\ Abs(buildings[k].x) <= U(150)
    /\ variant = "main" =>
        /\ xsOf(buildings) = SelectSeq(sampledX, OffRoad)
        /\ Len(sampledX) <= buildingCount(variant)
        /\ Len(buildings) <= buildingCount(variant)
    /\ variant = "part_000" =>
        Len(buildings) <= Len(cityRows) * buildingCount(variant)

\* C5 witness: the city is complete, one slot was rejected just inside the
\* road and one building stands exactly on its edge.
C5_Witness ==
    /\ variant = "main"
    /\ pc = "environment"
    /\ cityDone
    /\ \E k \in 1 .. Len(sampledX) : Abs(sampledX[k]) = U(15) - 4
    /\ \E k \in 1 .. Len(buildings) : buildings[k].x = -U(15)

\* The claims' camera constants: per-frame step s and wrap value T.
ClaimStep == IF variant = "main" THEN U(1) \div 2 ELSE U(1) \div 4
ClaimWrap == IF variant = "main" THEN U(400) ELSE U(600)
ClaimHalfWidth == IF variant = "main" THEN U(150) ELSE U(125)

C8_WindowContainment ==
    \A k \in 1 .. Len(buildings) :
        \A w \in buildings[k].windows :
            /\ -buildings[k].width <= 2 * w.x - U(1)
            /\ 2 * w.x + U(1) <= buildings[k].width
            /\ 0 <= w.y - U(1)
            /\ w.y + U(1) <= buildings[k].height

\* C8 witness: a building of height 12 whose top window ends exactly at the
\* roof, and a building with a full 17 x 5 grid lit on both faces.
C8_Witness ==
    /\ \E k \in 1 .. Len(buildings) :
        /\ buildings[k].height = U(12)
        /\ \E w \in buildings[k].windows : w.y + U(1) = buildings[k].height
    /\ \E k \in 1 .. Len(buildings) : Cardinality(buildings[k].windows) = 170

IndexOf(seq, name) ==
    IF \E k \in 1 .. Len(seq) : seq[k] = name
    THEN CHOOSE k \in 1 .. Len(seq) : seq[k] = name /\ \A m \in 1 .. k - 1 : seq[m] # name
    ELSE 0

Count(seq, name) == Cardinality({k \in 1 .. Len(seq) : seq[k] = name})

\* C10 as stated: the rain runs before the camera driver, so a respawn in
\* frame k is centred on the camera position left by frame k-1.
C10_Original ==
    [][ IsFrame =>
          \A i \in Particles :
              respawned'[i] =>
                  /\ Abs(startX(rainPositions', i) - camera.x) <= ClaimHalfWidth
                  /\ Abs(startZ(rainPositions', i) - camera.z) <= ClaimHalfWidth ]_vars

\* C10 as amended: the camera driver runs before the rain loop, each exactly
\* once per frame, so a respawn in frame k is centred on the camera position
\* computed in frame k.
C10_CameraThenRain ==
    [][ IsFrame =>
          /\ Count(steps', "camera") = 1
          /\ Count(steps', "rain") = 1
          /\ IndexOf(steps', "camera") < IndexOf(steps', "rain")
          /\ \A i \in Particles :
              /\ visits'[i] = 1
              /\ respawned'[i] =>
                  /\ Abs(startX(rainPositions', i) - camera'.x) <= ClaimHalfWidth
                  /\ Abs(startZ(rainPositions', i) - camera'.z) <= ClaimHalfWidth ]_vars

\* C10 witness: a frame moved the camera off its start and respawned a
\* particle at the edge of the square around the new camera position.
C10_Witness ==
    /\ pc = "running"
    /\ frame >= 1
    /\ camera.x # 0
    /\ \E i \in Particles :
        /\ respawned[i]
        /\ startX(rainPositions, i) = camera.x - ClaimHalfWidth
        /\ startZ(rainPositions, i) = camera.z - ClaimHalfWidth

\* The projection / viewport state a resize to window size w leaves: the
\* camera aspect w.width / w.height and w as renderer and composer size.
ClaimViewportOf(w) == [aspect |-> Aspect(w), renderer |-> w, composer |-> w]

\* The step is the handling of one resize event (the only step of the running
\* program that is not a frame callback).
IsResize == pc = "running" /\ pc' = "running" /\ frame' = frame

\* C11: in any interleaving of resize events and frame callbacks, a resize
\* changes only the projection / viewport state (camera aspect, renderer and
\* composer size) and leaves the rain buffers, the camera position and the
\* frame history unchanged, and a frame callback leaves the projection /
\* viewport state unchanged; the two write disjoint state, so resize-then-frame
\* and frame-then-resize reach the same state.  The viewport state is a
\* function of the window size of the last resize alone (of the size init saw
\* before the first one), so a second resize at the same size changes nothing.
C11_ResizeFrameCommute ==
    /\ [](pc = "running" => viewport = ClaimViewportOf(windowSize))
    /\ [][ /\ IsFrame => viewport' = viewport /\ windowSize' = windowSize
           /\ IsResize =>
               /\ rainPositions' = rainPositions
               /\ rainVelocities' = rainVelocities
               /\ streakLength' = streakLength
               /\ camera' = camera
               /\ viewport' = ClaimViewportOf(windowSize')
           /\ (IsResize /\ windowSize' = windowSize) => viewport' = viewport ]_vars

\* C11 witness: frames and a resize to a size of another aspect have both
\* happened, with a particle respawned by the last frame; the state is the
\* same whichever of the last frame and the resize came first.
C11_Witness ==
    /\ pc = "running"
    /\ frame >= 2
    /\ windowSize = <<1280, 720>>
    /\ viewport.aspect = <<16, 9>>
    /\ viewport.composer = <<1280, 720>>
    /\ \E i \in Particles : respawned[i]

\* The respawn height of the claims: 300 in main.js, 200 in part_000.
ClaimMaxHeight == IF variant = "main" THEN U(300) ELSE U(200)

\* C12: after createRain and after every animate call, every particle's
\* start.y satisfies 0 <= start.y <= maxHeight (300 in main.js, 200 in
\* part_000): no frame ends with a start point below the ground plane.
C12_StartHeightBounds ==
    pc = "running" =>
        \A i \in Particles :
            /\ 0 <= startY(rainPositions, i)
            /\ startY(rainPositions, i) <= ClaimMaxHeight

\* C12 witness: after a frame, one particle has just been put back at
\* maxHeight and another one lies exactly on the ground plane, not reset.
C12_Witness ==
    /\ pc = "running"
    /\ frame >= 1
    /\ \E i, j \in Particles :
        /\ respawned[i]
        /\ startY(rainPositions, i) = ClaimMaxHeight
        /\ ~respawned[j]
        /\ age[j] >= 1
        /\ startY(rainPositions, j) = 0

\* floor(maxHeight / minSpeed) + 1: 151 in main.js, 134 in part_000.
ClaimRespawnWithin == IF variant = "main" THEN 151 ELSE 134

\* C13: every particle is respawned within at most floor(maxHeight /
\* minSpeed) + 1 consecutive animate calls (151 in main.js, 134 in part_000)
\* of its creation or previous respawn: no particle ever ends a call that many
\* calls after its creation or last reset without being reset by it, so
\* while frames keep coming every particle is respawned again and again.
C13_RespawnWithin ==
    /\ [](pc = "running" => \A i \in Particles : age[i] < ClaimRespawnWithin)
    /\ [][ IsFrame =>
             \A i \in Particles :
                 /\ age[i] = ClaimRespawnWithin - 1 => respawned'[i]
                 /\ age'[i] = IF respawned'[i] THEN 0 ELSE age[i] + 1 ]_vars

\* C13 witness: a particle of minimum speed has ended one call short of the
\* bound since its last respawn (more frames have run than its age, so it was
\* respawned before): the bound is attained, not merely an upper estimate.
C13_Witness ==
    /\ pc = "running"
    /\ \E i \in Particles :
        /\ age[i] = ClaimRespawnWithin - 1
        /\ frame > ClaimRespawnWithin

====
